---- MODULE Spec2Model ----
(***************************************************************************)
(* clip_retrieval/load_clip.py: prefix dispatch to three backend loaders,  *)
(* two memoizing caches (functools.lru_cache(maxsize=None)) and a warmup   *)
(* that runs two dummy passes through encode_image / encode_text.          *)
(*                                                                         *)
(* Strings that the code parses (model names) are sequences of characters. *)
(* A loaded model is an object: its identity is the pair <<model cache     *)
(* key, n>> for the n-th invocation of a backend loader under that key.    *)
(***************************************************************************)
EXTENDS Integers, Sequences, FiniteSets, TLC

VARIABLES
    env,          \* [cuda_available, bf16_supported]: what torch.cuda reports
    workload,     \* [requests, names, threads, budget]: the inputs of the run
    loadCache,    \* lru_cache of load_clip: argument record -> handle
    modelCache,   \* lru_cache of load_clip_without_warmup: 4-tuple -> handle
    tokCache,     \* lru_cache of get_tokenizer: name -> tokenizer
    loaderCalls,  \* model cache key -> number of backend loader invocations
    warmupRuns,   \* load_clip argument record -> number of warmup() calls
    history,      \* the load_clip calls that have ended, in order
    nreq,         \* number of requests issued so far
    pc,           \* per thread: position in the code
    args,         \* per thread: arguments of the current call
    device,       \* per thread: local variable device of load_clip
    model,        \* per thread: local variable model (the handle) of load_clip
    batch,        \* per thread: image_tensor / text_tokens of warmup
    wi,           \* per thread: encode calls completed by the warmup loop
    autocast,     \* per thread: the precision-casting context that is open
    trace,        \* per thread: steps of the current (or last) call, in order
    outcome       \* per thread: how the last call ended

vars == <<env, workload, loadCache, modelCache, tokCache, loaderCalls, warmupRuns,
          history, nreq, pc, args, device, model, batch, wi, autocast, trace, outcome>>

shared == <<loadCache, modelCache, tokCache, loaderCalls, warmupRuns, history>>

None == "None"

Threads == {"t1", "t2"}

(***************************************************************************)
(* Bounds of the model.                                                    *)
(***************************************************************************)
MaxRequests == 3
MaxNameRequests == 2
MaxConcRequests == 2
MaxBatch == 2

(***************************************************************************)
(* Python strings and lru_cache dictionaries.                              *)
(***************************************************************************)
OPEN_CLIP_PREFIX == <<"o", "p", "e", "n", "_", "c", "l", "i", "p", ":">>
HF_CLIP_PREFIX == <<"h", "f", "_", "c", "l", "i", "p", ":">>

\* str.startswith(prefix)
startswith(s, prefix) ==
    /\ Len(s) >= Len(prefix)
    /\ SubSeq(s, 1, Len(prefix)) = prefix

\* s[n-1:], a slice that starts one character early
SliceFromEarly(s, n) == SubSeq(s, n, Len(s))

\* s[n:]
SliceFrom(s, n) == SubSeq(s, n + 1, Len(s))

EmptyMap == [k \in {} |-> None]

\* a cache of size one: storing an entry evicts the others
PutEvicting(cache, key, value) == [k \in {key} |-> value]

\* lru_cache(maxsize=None): cache[key] = value; nothing is evicted, and an
\* existing entry for the key is overwritten
Put(cache, key, value) ==
    [k \in DOMAIN cache \cup {key} |-> IF k = key THEN value ELSE cache[k]]

Count(f, k) == IF k \in DOMAIN f THEN f[k] ELSE 0

\* one more occurrence of k
Incr(f, k) == [x \in DOMAIN f \cup {k} |-> IF x = k THEN Count(f, k) + 1 ELSE f[x]]

Event(ev, a, b) == [ev |-> ev, a |-> a, b |-> b]

(***************************************************************************)
(* Adapter wrappers and backend loaders.                                   *)
(***************************************************************************)
Wrappers == {"HFClipWrapper", "OpenClipWrapper"}

\* torch.device(device=device).type: the device string without its index
torch_device_type(dev) ==
    CASE dev = "cpu" -> "cpu"
      [] dev = "cuda" -> "cuda"
      [] dev = "cuda:0" -> "cuda"
      [] dev = "mps" -> "mps"

\* the dtype chosen by either wrapper's __init__ for a device type
HFClipWrapper_dtype(type) ==
    IF type = "cpu" THEN "float32"
    ELSE IF env.bf16_supported THEN "bfloat16" ELSE "float16"

OpenClipWrapper_dtype(type) ==
    IF type = "cpu" THEN "float32"
    ELSE IF env.bf16_supported THEN "bfloat16" ELSE "float16"

HFClipWrapper(inner_model, dev) ==
    [class |-> "HFClipWrapper", inner_model |-> inner_model,
     device_type |-> torch_device_type(dev),
     dtype |-> HFClipWrapper_dtype(torch_device_type(dev))]

OpenClipWrapper(inner_model, dev) ==
    [class |-> "OpenClipWrapper", inner_model |-> inner_model,
     device_type |-> torch_device_type(dev),
     dtype |-> OpenClipWrapper_dtype(torch_device_type(dev))]

\* a wrapper that opens the context on every device
ContextOnEveryDevice(m) == m.dtype

\* the casting context an encode call of the wrapper opens ("off": none)
HFClipWrapper_context(m) ==
    IF m.device_type = "cpu" THEN "off" ELSE m.dtype

OpenClipWrapper_context(m) ==
    IF m.device_type = "cpu" THEN "off" ELSE m.dtype

\* the context opened by model.encode_image / model.encode_text
EncodeContext(m) ==
    CASE m.class = "HFClipWrapper" -> HFClipWrapper_context(m)
      [] m.class = "OpenClipWrapper" -> OpenClipWrapper_context(m)
      [] OTHER -> "off"

\* the method of the inner model an encode call ends in
InnerMethod(m, method) ==
    CASE m.class = "HFClipWrapper" ->
            IF method = "encode_image" THEN "get_image_features" ELSE "get_text_features"
      [] OTHER -> method

load_hf_clip(clip_model, dev) ==
    HFClipWrapper([backend |-> "transformers", name |-> clip_model,
                   jit |-> None, cache_path |-> None, device |-> dev], dev)

load_open_clip(clip_model, use_jit, dev, clip_cache_path) ==
    OpenClipWrapper([backend |-> "open_clip", name |-> clip_model,
                     jit |-> use_jit, cache_path |-> clip_cache_path, device |-> dev], dev)

\* clip.load of the default backend: the model is returned unwrapped
clip_load(clip_model, dev, use_jit, download_root) ==
    [class |-> "CLIP",
     inner_model |-> [backend |-> "clip", name |-> clip_model,
                      jit |-> use_jit, cache_path |-> download_root, device |-> dev],
     device_type |-> torch_device_type(dev), dtype |-> "native"]

(***************************************************************************)
(* Prefix dispatch.                                                        *)
(***************************************************************************)
\* load_clip_without_warmup: the loader called and the name it is given
LoaderFor(clip_model) ==
    IF startswith(clip_model, OPEN_CLIP_PREFIX)
    THEN [loader |-> "load_open_clip", name |-> SliceFrom(clip_model, Len(OPEN_CLIP_PREFIX))]
    ELSE IF startswith(clip_model, HF_CLIP_PREFIX)
    THEN [loader |-> "load_hf_clip", name |-> SliceFrom(clip_model, Len(HF_CLIP_PREFIX))]
    ELSE [loader |-> "clip.load", name |-> clip_model]

\* the value the selected loader returns when it succeeds
LoaderResult(d, use_jit, dev, clip_cache_path) ==
    CASE d.loader = "load_open_clip" -> load_open_clip(d.name, use_jit, dev, clip_cache_path)
      [] d.loader = "load_hf_clip" -> load_hf_clip(d.name, dev)
      [] d.loader = "clip.load" -> clip_load(d.name, dev, use_jit, clip_cache_path)

\* get_tokenizer that hands the whole name, prefix included, to open_clip
TokenizerForKeepingPrefix(clip_model) ==
    IF startswith(clip_model, OPEN_CLIP_PREFIX)
    THEN [tokenizer |-> "open_clip.get_tokenizer", name |-> clip_model]
    ELSE [tokenizer |-> "clip.tokenize", name |-> <<>>]

\* get_tokenizer: the tokenizer built for a name
TokenizerFor(clip_model) ==
    IF startswith(clip_model, OPEN_CLIP_PREFIX)
    THEN [tokenizer |-> "open_clip.get_tokenizer",
          name |-> SliceFrom(clip_model, Len(OPEN_CLIP_PREFIX))]
    ELSE [tokenizer |-> "clip.tokenize", name |-> <<>>]

\* load_clip, lines 124-125
ResolveDevice(dev) ==
    IF dev = None THEN (IF env.cuda_available THEN "cuda" ELSE "cpu") ELSE dev

\* a key that also holds the warmup batch size
ModelKeyWithBatchSize(a, dev) ==
    <<a.clip_model, a.use_jit, dev, a.clip_cache_path, a.warmup_batch_size>>

\* the arguments load_clip passes on: the key of load_clip_without_warmup's cache
ModelKey(a, dev) == <<a.clip_model, a.use_jit, dev, a.clip_cache_path>>

\* load_clip's own cache is keyed by all five arguments as given
LoadKey(a) == a

(***************************************************************************)
(* Inputs.  use_jit is "True" or "False"; None is Python's None.           *)
(***************************************************************************)
Req(n, j, b, p, d) ==
    [clip_model |-> n, use_jit |-> j, warmup_batch_size |-> b,
     clip_cache_path |-> p, device |-> d]

BareA == <<"A">>
OpenA == OPEN_CLIP_PREFIX \o BareA
HfA == HF_CLIP_PREFIX \o BareA

Base == Req(OpenA, "True", 1, None, None)

\* the base request with one argument changed
Variants ==
    {Req(n, "True", 1, None, None) : n \in {HfA, BareA}}
    \cup {Req(OpenA, "False", 1, None, None)}
    \cup {Req(OpenA, "True", b, None, None) : b \in {0, MaxBatch}}
    \cup {Req(OpenA, "True", 1, "/cache", None)}
    \cup {Req(OpenA, "True", 1, None, d) : d \in {"cpu", "cuda", "cuda:0", "mps"}}

\* names around the two prefixes
Names ==
    {OpenA, HfA, BareA, <<>>, OPEN_CLIP_PREFIX, HF_CLIP_PREFIX,
     HF_CLIP_PREFIX \o OpenA, OPEN_CLIP_PREFIX \o HfA,
     <<"x">> \o OpenA, <<"x">> \o HfA,
     SubSeq(OPEN_CLIP_PREFIX, 1, 9) \o BareA, SubSeq(HF_CLIP_PREFIX, 1, 7) \o BareA,
     <<"O">> \o Tail(OpenA)}

NameRequests(n) == {Req(n, "True", b, None, None) : b \in {0, 1}}

ConcRequests == {Req(OpenA, "True", b, None, None) : b \in {1, MaxBatch}}

\* torch.cuda.is_available() and torch.cuda.is_bf16_supported()
Envs ==
    {e \in [cuda_available : BOOLEAN, bf16_supported : BOOLEAN] :
        e.bf16_supported => e.cuda_available}

NoModel == [id |-> <<>>, obj |-> [class |-> "None"]]
NoBatch == [image_tensor |-> <<>>, text_tokens |-> <<>>]
NoArgs == Req(<<>>, None, 0, None, None)
NoOutcome == [kind |-> "none"]

InitState ==
    /\ loadCache = EmptyMap
    /\ modelCache = EmptyMap
    /\ tokCache = EmptyMap
    /\ loaderCalls = EmptyMap
    /\ warmupRuns = EmptyMap
    /\ history = <<>>
    /\ nreq = 0
    /\ pc = [t \in Threads |-> "idle"]
    /\ args = [t \in Threads |-> NoArgs]
    /\ device = [t \in Threads |-> None]
    /\ model = [t \in Threads |-> NoModel]
    /\ batch = [t \in Threads |-> NoBatch]
    /\ wi = [t \in Threads |-> 0]
    /\ autocast = [t \in Threads |-> "off"]
    /\ trace = [t \in Threads |-> <<>>]
    /\ outcome = [t \in Threads |-> NoOutcome]

Init ==
    /\ env \in Envs
    /\ workload \in {[requests |-> {Base, v}, names |-> {Base.clip_model, v.clip_model},
                     threads |-> {"t1"}, budget |-> MaxRequests] : v \in Variants}
    /\ InitState

InitNames ==
    /\ env \in Envs
    /\ workload \in {[requests |-> NameRequests(n), names |-> {n},
                     threads |-> {"t1"}, budget |-> MaxNameRequests] : n \in Names}
    /\ InitState

InitConc ==
    /\ env \in {e \in Envs : e.cuda_available}
    /\ workload = [requests |-> ConcRequests, names |-> {OpenA},
                   threads |-> Threads, budget |-> MaxConcRequests]
    /\ InitState

(***************************************************************************)
(* load_clip, step by step.  A lookup in an lru_cache, the call of a       *)
(* backend loader, the store of its result and each encode call of the     *)
(* warmup are separate steps: another thread can run between them.         *)
(***************************************************************************)
WarmupPasses == 2

Append2(tr, e1, e2) == Append(Append(tr, e1), e2)

Raise(origin, detail) == [kind |-> "raise", origin |-> origin, detail |-> detail]

Evs(tr) == [i \in 1..Len(tr) |-> tr[i].ev]

Has(tr, ev) == \E i \in 1..Len(tr) : tr[i].ev = ev

\* the record of a load_clip call that ends: who called, with what, how it ended,
\* the handle it held, whether it called a backend loader and whether it ran warmup
Ended(t, kind, origin, m, tr) ==
    Append(history, [thread |-> t, args |-> args[t], kind |-> kind, origin |-> origin,
                     model |-> m.id, loaded |-> Has(tr, "load"), warmed |-> Has(tr, "warmup")])

\* load_clip(a) is called: the lru_cache wrapper looks the arguments up and
\* answers from the cache on a hit
CallLoadClip(t, a) ==
    /\ t \in workload.threads
    /\ pc[t] = "idle"
    /\ nreq < workload.budget
    /\ nreq' = nreq + 1
    /\ args' = [args EXCEPT ![t] = a]
    /\ device' = [device EXCEPT ![t] = None]
    /\ model' = [model EXCEPT ![t] = NoModel]
    /\ batch' = [batch EXCEPT ![t] = NoBatch]
    /\ wi' = [wi EXCEPT ![t] = 0]
    /\ IF LoadKey(a) \in DOMAIN loadCache
       THEN /\ pc' = pc
            /\ trace' = [trace EXCEPT ![t] = <<Event("cache_hit", "load_clip", None)>>]
            /\ outcome' = [outcome EXCEPT ![t] =
                              [kind |-> "return", value |-> loadCache[LoadKey(a)]]]
            /\ history' = Append(history,
                              [thread |-> t, args |-> a, kind |-> "return", origin |-> "cache",
                               model |-> loadCache[LoadKey(a)].id, loaded |-> FALSE, warmed |-> FALSE])
       ELSE /\ pc' = [pc EXCEPT ![t] = "lc_body"]
            /\ trace' = [trace EXCEPT ![t] = <<>>]
            /\ outcome' = [outcome EXCEPT ![t] = NoOutcome]
            /\ UNCHANGED history
    /\ UNCHANGED <<env, workload, loadCache, modelCache, tokCache, loaderCalls,
                   warmupRuns, autocast>>

\* lines 124-126: resolve the device, then the lru_cache wrapper of
\* load_clip_without_warmup looks its four arguments up
LoadClipBody(t) ==
    /\ pc[t] = "lc_body"
    /\ LET dev == ResolveDevice(args[t].device)
           key == ModelKey(args[t], dev)
       IN  /\ device' = [device EXCEPT ![t] = dev]
           /\ IF key \in DOMAIN modelCache
              THEN /\ model' = [model EXCEPT ![t] = modelCache[key]]
                   /\ trace' = [trace EXCEPT ![t] =
                                   Append(@, Event("cache_hit", "load_clip_without_warmup", None))]
                   /\ pc' = [pc EXCEPT ![t] = "warmup"]
              ELSE /\ pc' = [pc EXCEPT ![t] = "lcww_body"]
                   /\ UNCHANGED <<model, trace>>
    /\ UNCHANGED <<env, workload, shared, nreq, args, batch, wi, autocast, outcome>>

\* a loader cannot put a model on a device the machine does not have
DeviceAvailable(dev) == torch_device_type(dev) = "cuda" => env.cuda_available

\* lines 110-117: the body of load_clip_without_warmup selects a loader by prefix
\* and calls it
Dispatched(t) ==
    LET d == LoaderFor(args[t].clip_model)
    IN  Append2(trace[t], Event("dispatch", d.loader, d.name), Event("load", d.loader, d.name))

\* the selected loader returns a new model
LoaderReturns(t) ==
    /\ pc[t] = "lcww_body"
    /\ DeviceAvailable(device[t])
    /\ LET key == ModelKey(args[t], device[t])
           n == Count(loaderCalls, key) + 1
       IN  /\ loaderCalls' = Incr(loaderCalls, key)
           /\ model' = [model EXCEPT ![t] =
                           [id |-> <<key, n>>,
                            obj |-> LoaderResult(LoaderFor(args[t].clip_model), args[t].use_jit,
                                                 device[t], args[t].clip_cache_path)]]
    /\ trace' = [trace EXCEPT ![t] = Dispatched(t)]
    /\ pc' = [pc EXCEPT ![t] = "lcww_store"]
    /\ UNCHANGED <<env, workload, loadCache, modelCache, tokCache, warmupRuns, history,
                   nreq, args, device, batch, wi, autocast, outcome>>

\* a loader that is called a second time when it has raised
LoaderRaisesThenRetries(t) ==
    /\ pc[t] = "lcww_body"
    /\ loaderCalls' = Incr(loaderCalls, ModelKey(args[t], device[t]))
    /\ IF trace[t] = <<>>
       THEN /\ trace' = [trace EXCEPT ![t] = Dispatched(t)]
            /\ UNCHANGED <<outcome, history, pc>>
       ELSE /\ outcome' = [outcome EXCEPT ![t] =
                              Raise("loader", LoaderFor(args[t].clip_model))]
            /\ trace' = [trace EXCEPT ![t] =
                            Append(Dispatched(t), Event("raise", "loader", None))]
            /\ history' = Ended(t, "raise", "loader", NoModel,
                                Append(Dispatched(t), Event("raise", "loader", None)))
            /\ pc' = [pc EXCEPT ![t] = "idle"]
    /\ UNCHANGED <<env, workload, loadCache, modelCache, tokCache, warmupRuns,
                   nreq, args, device, model, batch, wi, autocast>>

\* a wrapper that remembers a failed load as the entry of the key
LoaderRaisesAndIsCached(t) ==
    /\ pc[t] = "lcww_body"
    /\ loaderCalls' = Incr(loaderCalls, ModelKey(args[t], device[t]))
    /\ modelCache' = Put(modelCache, ModelKey(args[t], device[t]), NoModel)
    /\ outcome' = [outcome EXCEPT ![t] = Raise("loader", LoaderFor(args[t].clip_model))]
    /\ trace' = [trace EXCEPT ![t] = Append(Dispatched(t), Event("raise", "loader", None))]
    /\ history' = Ended(t, "raise", "loader", NoModel,
                        Append(Dispatched(t), Event("raise", "loader", None)))
    /\ pc' = [pc EXCEPT ![t] = "idle"]
    /\ UNCHANGED <<env, workload, loadCache, tokCache, warmupRuns,
                   nreq, args, device, model, batch, wi, autocast>>

\* the selected loader raises: the exception leaves load_clip_without_warmup and
\* load_clip, and neither lru_cache wrapper stores anything
LoaderRaises(t) ==
    /\ pc[t] = "lcww_body"
    /\ loaderCalls' = Incr(loaderCalls, ModelKey(args[t], device[t]))
    /\ outcome' = [outcome EXCEPT ![t] = Raise("loader", LoaderFor(args[t].clip_model))]
    /\ trace' = [trace EXCEPT ![t] = Append(Dispatched(t), Event("raise", "loader", None))]
    /\ history' = Ended(t, "raise", "loader", NoModel,
                        Append(Dispatched(t), Event("raise", "loader", None)))
    /\ pc' = [pc EXCEPT ![t] = "idle"]
    /\ UNCHANGED <<env, workload, loadCache, modelCache, tokCache, warmupRuns,
                   nreq, args, device, model, batch, wi, autocast>>

\* a wrapper that returns what the body returned without storing it
StoreModelSkipped(t) ==
    /\ pc[t] = "lcww_store"
    /\ trace' = [trace EXCEPT ![t] = Append(@, Event("store", "load_clip_without_warmup", None))]
    /\ pc' = [pc EXCEPT ![t] = "warmup"]
    /\ UNCHANGED <<env, workload, shared, nreq, args, device, model, batch, wi,
                   autocast, outcome>>

\* the lru_cache wrapper of load_clip_without_warmup stores what the body returned
StoreModel(t) ==
    /\ pc[t] = "lcww_store"
    /\ modelCache' = Put(modelCache, ModelKey(args[t], device[t]), model[t])
    /\ trace' = [trace EXCEPT ![t] = Append(@, Event("store", "load_clip_without_warmup", None))]
    /\ pc' = [pc EXCEPT ![t] = "warmup"]
    /\ UNCHANGED <<env, workload, loadCache, tokCache, loaderCalls, warmupRuns, history,
                   nreq, args, device, model, batch, wi, autocast, outcome>>

\* ["fake"] * batch_size, and the list given to torch.cat
Repeat(x, n) == [i \in 1..n |-> x]

\* lines 137-140: warmup builds its two batches; torch.cat of an empty list raises
Warmup(t) ==
    /\ pc[t] = "warmup"
    /\ LET n == args[t].warmup_batch_size
           fake_text == Repeat("fake", n)
           images == Repeat("fake_img", n)
       IN  /\ warmupRuns' = Incr(warmupRuns, LoadKey(args[t]))
           /\ IF images = <<>>
              THEN /\ outcome' = [outcome EXCEPT ![t] = Raise("warmup", "torch.cat")]
                   /\ trace' = [trace EXCEPT ![t] =
                                   Append2(@, Event("warmup", n, None),
                                              Event("raise", "warmup", None))]
                   /\ history' = Ended(t, "raise", "warmup", model[t],
                                       Append2(trace[t], Event("warmup", n, None),
                                                         Event("raise", "warmup", None)))
                   /\ pc' = [pc EXCEPT ![t] = "idle"]
                   /\ UNCHANGED <<batch, wi>>
              ELSE /\ batch' = [batch EXCEPT ![t] =
                                   [image_tensor |-> images, text_tokens |-> fake_text]]
                   /\ wi' = [wi EXCEPT ![t] = 0]
                   /\ trace' = [trace EXCEPT ![t] = Append(@, Event("warmup", n, None))]
                   /\ pc' = [pc EXCEPT ![t] = "enc_begin"]
                   /\ UNCHANGED <<outcome, history>>
    /\ UNCHANGED <<env, workload, loadCache, modelCache, tokCache, loaderCalls,
                   nreq, args, device, model, autocast>>

\* a loop that runs both image passes before the text passes
WarmupMethodGrouped(i) == IF i < 2 THEN "encode_image" ELSE "encode_text"

\* lines 141-144: each pass calls encode_image, then encode_text
WarmupMethod(i) == IF i % 2 = 0 THEN "encode_image" ELSE "encode_text"

WarmupInput(t) ==
    IF WarmupMethod(wi[t]) = "encode_image" THEN batch[t].image_tensor
    ELSE batch[t].text_tokens

\* model.encode_image / model.encode_text is entered: a wrapper on a device
\* other than cpu opens autocast
EncodeBegin(t) ==
    /\ pc[t] = "enc_begin"
    /\ autocast' = [autocast EXCEPT ![t] = EncodeContext(model[t].obj)]
    /\ pc' = [pc EXCEPT ![t] = "enc_inner"]
    /\ UNCHANGED <<env, workload, shared, nreq, args, device, model, batch, wi,
                   trace, outcome>>

\* the inner model runs; if it raises, the with statement closes the context
\* and the exception leaves warmup and load_clip
EncodeInner(t) ==
    /\ pc[t] = "enc_inner"
    /\ LET call == Event(WarmupMethod(wi[t]),
                         [inner |-> InnerMethod(model[t].obj, WarmupMethod(wi[t])),
                          context |-> autocast[t]],
                         Len(WarmupInput(t)))
       IN  \/ /\ trace' = [trace EXCEPT ![t] = Append(@, call)]
              /\ pc' = [pc EXCEPT ![t] = "enc_end"]
              /\ UNCHANGED <<autocast, outcome, history>>
           \/ /\ trace' = [trace EXCEPT ![t] =
                              Append2(@, call, Event("raise", "encode", None))]
              /\ autocast' = [autocast EXCEPT ![t] = "off"]
              /\ outcome' = [outcome EXCEPT ![t] = Raise("encode", WarmupMethod(wi[t]))]
              /\ history' = Ended(t, "raise", "encode", model[t],
                                  Append2(trace[t], call, Event("raise", "encode", None)))
              /\ pc' = [pc EXCEPT ![t] = "idle"]
    /\ UNCHANGED <<env, workload, loadCache, modelCache, tokCache, loaderCalls, warmupRuns,
                   nreq, args, device, model, batch, wi>>

\* the encode call returns: the context, if any, is closed
EncodeEnd(t) ==
    /\ pc[t] = "enc_end"
    /\ autocast' = [autocast EXCEPT ![t] = "off"]
    /\ wi' = [wi EXCEPT ![t] = @ + 1]
    /\ IF wi[t] + 1 = 2 * WarmupPasses
       THEN /\ pc' = [pc EXCEPT ![t] = "lc_return"]
            /\ trace' = [trace EXCEPT ![t] = Append(@, Event("warmup_done", None, None))]
       ELSE /\ pc' = [pc EXCEPT ![t] = "enc_begin"]
            /\ UNCHANGED trace
    /\ UNCHANGED <<env, workload, shared, nreq, args, device, model, batch, outcome>>

\* load_clip without its own cache
ReturnLoadClipUncached(t) ==
    /\ pc[t] = "lc_return"
    /\ outcome' = [outcome EXCEPT ![t] = [kind |-> "return", value |-> model[t]]]
    /\ history' = Ended(t, "return", "body", model[t],
                        Append(trace[t], Event("return", None, None)))
    /\ trace' = [trace EXCEPT ![t] = Append(@, Event("return", None, None))]
    /\ pc' = [pc EXCEPT ![t] = "idle"]
    /\ UNCHANGED <<env, workload, loadCache, modelCache, tokCache, loaderCalls, warmupRuns,
                   nreq, args, device, model, batch, wi, autocast>>

\* line 133: load_clip returns (model, preprocess); its lru_cache wrapper stores it
ReturnLoadClip(t) ==
    /\ pc[t] = "lc_return"
    /\ loadCache' = Put(loadCache, LoadKey(args[t]), model[t])
    /\ outcome' = [outcome EXCEPT ![t] = [kind |-> "return", value |-> model[t]]]
    /\ history' = Ended(t, "return", "body", model[t],
                        Append(trace[t], Event("return", None, None)))
    /\ trace' = [trace EXCEPT ![t] = Append(@, Event("return", None, None))]
    /\ pc' = [pc EXCEPT ![t] = "idle"]
    /\ UNCHANGED <<env, workload, modelCache, tokCache, loaderCalls, warmupRuns,
                   nreq, args, device, model, batch, wi, autocast>>

\* get_tokenizer(name) is called: the lru_cache wrapper looks the name up
CallGetTokenizer(t, name) ==
    /\ t \in workload.threads
    /\ name \in workload.names
    /\ pc[t] = "idle"
    /\ nreq < workload.budget
    /\ nreq' = nreq + 1
    /\ args' = [args EXCEPT ![t] = [NoArgs EXCEPT !.clip_model = name]]
    /\ IF name \in DOMAIN tokCache
       THEN /\ outcome' = [outcome EXCEPT ![t] =
                              [kind |-> "tokenizer", value |-> tokCache[name]]]
            /\ trace' = [trace EXCEPT ![t] = <<Event("cache_hit", "get_tokenizer", None)>>]
            /\ pc' = pc
       ELSE /\ outcome' = [outcome EXCEPT ![t] = NoOutcome]
            /\ trace' = [trace EXCEPT ![t] = <<>>]
            /\ pc' = [pc EXCEPT ![t] = "tok_body"]
    /\ UNCHANGED <<env, workload, shared, device, model, batch, wi, autocast>>

\* lines 98-104: the body of get_tokenizer; the wrapper stores the result
GetTokenizerBody(t) ==
    /\ pc[t] = "tok_body"
    /\ LET tok == TokenizerFor(args[t].clip_model)
       IN  /\ tokCache' = Put(tokCache, args[t].clip_model, tok)
           /\ outcome' = [outcome EXCEPT ![t] = [kind |-> "tokenizer", value |-> tok]]
           /\ trace' = [trace EXCEPT ![t] = <<Event("tokenizer", tok.tokenizer, tok.name)>>]
    /\ pc' = [pc EXCEPT ![t] = "idle"]
    /\ UNCHANGED <<env, workload, loadCache, modelCache, loaderCalls, warmupRuns, history,
                   nreq, args, device, model, batch, wi, autocast>>

Next ==
    \E t \in Threads :
        \/ \E a \in workload.requests : CallLoadClip(t, a)
        \/ LoadClipBody(t)
        \/ LoaderReturns(t)
        \/ LoaderRaises(t)
        \/ StoreModel(t)
        \/ Warmup(t)
        \/ EncodeBegin(t)
        \/ EncodeInner(t)
        \/ EncodeEnd(t)
        \/ ReturnLoadClip(t)
        \/ \E name \in Names : CallGetTokenizer(t, name)
        \/ GetTokenizerBody(t)

\* one thread; each run draws its requests from Base and one of the Variants
Spec == Init /\ [][Next]_vars

\* one thread; each run is about one of the Names
SpecNames == InitNames /\ [][Next]_vars

\* two threads
SpecConc == InitConc /\ [][Next]_vars

(***************************************************************************)
(* Vocabulary of the properties.                                           *)
(***************************************************************************)
Returns(i) == history[i].kind = "return"

Calls == 1..Len(history)

\* the key of load_clip_without_warmup's cache that a request resolves to
KeyOf(a) == <<a.clip_model, a.use_jit,
              IF a.device = None THEN (IF env.cuda_available THEN "cuda" ELSE "cpu")
              ELSE a.device,
              a.clip_cache_path>>

\* n begins with the characters of p; what follows them
HasPrefix(n, p) == Len(n) >= Len(p) /\ \A i \in 1..Len(p) : n[i] = p[i]
Rest(n, p) == [i \in 1..(Len(n) - Len(p)) |-> n[i + Len(p)]]

IsLoad(e) == e.ev = "load"

LoaderFamily(loader) ==
    CASE loader = "load_open_clip" -> "open_clip"
      [] loader = "load_hf_clip" -> "hf_clip"
      [] loader = "clip.load" -> "clip"

TokenizerFamily(tokenizer) ==
    CASE tokenizer = "open_clip.get_tokenizer" -> "open_clip"
      [] tokenizer = "clip.tokenize" -> "clip"

\* C1: in a single-threaded run, load_clip calls with identical arguments that
\* return all return the same handle, and every handle ever returned is still the
\* entry of load_clip's cache for its arguments: nothing is evicted or replaced,
\* whatever was requested in between.
C1_SameHandleForSameArguments ==
    /\ \A i, j \in Calls :
          (Returns(i) /\ Returns(j) /\ history[i].args = history[j].args)
             => history[i].model = history[j].model
    /\ \A i \in Calls :
          Returns(i) => /\ history[i].args \in DOMAIN loadCache
                        /\ loadCache[history[i].args].id = history[i].model

\* a request, then a request for another key, then the first request again,
\* answered from the cache
C1_Witness ==
    /\ Len(history) = 3
    /\ \A i \in Calls : Returns(i)
    /\ history[3].args = history[1].args
    /\ KeyOf(history[2].args) # KeyOf(history[1].args)
    /\ history[3].origin = "cache"
    /\ history[3].model = history[1].model

\* C2: whenever the body of load_clip_without_warmup has run for a name, it has
\* called exactly one backend loader: load_open_clip with the rest of the name
\* after "open_clip:", load_hf_clip with the rest after "hf_clip:", and clip.load
\* with the whole name otherwise; the model built carries that name.
C2_PrefixRouting ==
    \A t \in Threads :
        Has(trace[t], "dispatch") =>
            LET n == args[t].clip_model
                loads == SelectSeq(trace[t], IsLoad)
                loader == IF HasPrefix(n, OPEN_CLIP_PREFIX) THEN "load_open_clip"
                          ELSE IF HasPrefix(n, HF_CLIP_PREFIX) THEN "load_hf_clip"
                          ELSE "clip.load"
                name == IF HasPrefix(n, OPEN_CLIP_PREFIX) THEN Rest(n, OPEN_CLIP_PREFIX)
                        ELSE IF HasPrefix(n, HF_CLIP_PREFIX) THEN Rest(n, HF_CLIP_PREFIX)
                        ELSE n
            IN  /\ Len(loads) = 1
                /\ loads[1].a = loader
                /\ loads[1].b = name
                /\ model[t] # NoModel =>
                      /\ model[t].obj.inner_model.name = name
                      /\ model[t].obj.class =
                            (CASE loader = "load_open_clip" -> "OpenClipWrapper"
                               [] loader = "load_hf_clip" -> "HFClipWrapper"
                               [] loader = "clip.load" -> "CLIP")

\* "hf_clip:open_clip:A" has gone to load_hf_clip as "open_clip:A"
C2_Witness ==
    /\ args["t1"].clip_model = HF_CLIP_PREFIX \o OpenA
    /\ pc["t1"] = "lcww_store"
    /\ model["t1"].obj.class = "HFClipWrapper"
    /\ model["t1"].obj.inner_model.name = OpenA

\* C3 as stated: for every name, get_tokenizer returns the tokenizer of the backend
\* family whose loader load_clip_without_warmup selects for that name.
C3_TokenizerMirrorsLoader ==
    \A t \in Threads :
        outcome[t].kind = "tokenizer" =>
            TokenizerFamily(outcome[t].value.tokenizer)
                = LoaderFamily(LoaderFor(args[t].clip_model).loader)

\* C3 amended: get_tokenizer knows the "open_clip:" prefix only.  A name with that
\* prefix gets the OpenCLIP tokenizer of the rest of the name; every other name,
\* those beginning with "hf_clip:" included, gets the default clip tokenizer.  So
\* the tokenizer's family is the loader's family except for "hf_clip:" names.
C3_TokenizerOpenClipOrDefault ==
    \A t \in Threads :
        outcome[t].kind = "tokenizer" =>
            LET n == args[t].clip_model
                tok == outcome[t].value
            IN  /\ HasPrefix(n, OPEN_CLIP_PREFIX) =>
                      /\ tok.tokenizer = "open_clip.get_tokenizer"
                      /\ tok.name = Rest(n, OPEN_CLIP_PREFIX)
                /\ ~HasPrefix(n, OPEN_CLIP_PREFIX) => tok.tokenizer = "clip.tokenize"
                /\ ~HasPrefix(n, HF_CLIP_PREFIX) =>
                      TokenizerFamily(tok.tokenizer) = LoaderFamily(LoaderFor(n).loader)

\* get_tokenizer("hf_clip:A") has returned the default clip tokenizer
C3_Witness ==
    /\ outcome["t1"].kind = "tokenizer"
    /\ args["t1"].clip_model = HfA
    /\ outcome["t1"].value.tokenizer = "clip.tokenize"

IsEncode(e) == e.ev \in {"encode_image", "encode_text"}

\* C4: a wrapper (HFClipWrapper or OpenClipWrapper) built for cpu has dtype float32,
\* and its encode calls reach the inner model with no casting context open; built
\* for any other device it has dtype bfloat16 if that is supported and float16
\* otherwise, its encode calls reach the inner model under a context of that dtype,
\* and the context is open only while an encode call is running.
C4_PrecisionByDevice ==
    \A t \in Threads :
        IF model[t] # NoModel /\ model[t].obj.class \in Wrappers
        THEN LET m == model[t].obj
                 encodes == SelectSeq(trace[t], IsEncode)
                 inside == pc[t] \in {"enc_inner", "enc_end"}
                 reduced == IF env.bf16_supported THEN "bfloat16" ELSE "float16"
             IN  /\ \A i \in 1..Len(encodes) :
                       encodes[i].a.inner =
                           (IF m.class = "OpenClipWrapper" THEN encodes[i].ev
                            ELSE IF encodes[i].ev = "encode_image" THEN "get_image_features"
                            ELSE "get_text_features")
                 /\ IF device[t] = "cpu"
                    THEN /\ m.dtype = "float32"
                         /\ autocast[t] = "off"
                         /\ \A i \in 1..Len(encodes) : encodes[i].a.context = "off"
                    ELSE /\ m.dtype = reduced
                         /\ autocast[t] = (IF inside THEN reduced ELSE "off")
                         /\ \A i \in 1..Len(encodes) : encodes[i].a.context = reduced
        ELSE autocast[t] = "off"

\* an HFClipWrapper on cuda without bfloat16 is inside an encode call, under float16
C4_Witness ==
    /\ model["t1"].obj.class = "HFClipWrapper"
    /\ device["t1"] = "cuda"
    /\ ~env.bf16_supported
    /\ pc["t1"] = "enc_inner"
    /\ autocast["t1"] = "float16"

\* C5: when the selected backend loader raises, load_clip ends with that failure:
\* the call took the steps dispatch, one loader call, raise and nothing else, the
\* loader called is the one the prefix selects, the failure reported is that
\* loader's, and the call returned no handle.
C5_LoaderFailurePropagates ==
    \A t \in Threads :
        (outcome[t].kind = "raise" /\ outcome[t].origin = "loader") =>
            LET n == args[t].clip_model
                last == history[Len(history)]
            IN  /\ pc[t] = "idle"
                /\ Evs(trace[t]) = <<"dispatch", "load", "raise">>
                /\ trace[t][2].a =
                      (IF HasPrefix(n, OPEN_CLIP_PREFIX) THEN "load_open_clip"
                       ELSE IF HasPrefix(n, HF_CLIP_PREFIX) THEN "load_hf_clip"
                       ELSE "clip.load")
                /\ outcome[t].detail.loader = trace[t][2].a
                /\ outcome[t].detail.name = trace[t][2].b
                /\ model[t] = NoModel
                /\ last.args = args[t] /\ last.kind = "raise" /\ last.model = NoModel.id

\* load_hf_clip has raised and the call has ended
C5_Witness ==
    /\ outcome["t1"].kind = "raise"
    /\ outcome["t1"].origin = "loader"
    /\ outcome["t1"].detail.loader = "load_hf_clip"
    /\ pc["t1"] = "idle"

WarmupPcs == {"warmup", "enc_begin", "enc_inner", "enc_end"}

\* what a call has done from the start of its warmup on
WarmupSteps(t) ==
    LET w == CHOOSE i \in 1..Len(trace[t]) : trace[t][i].ev = "warmup"
    IN  SubSeq(trace[t], w, Len(trace[t]))

IsPrefix(s, u) == Len(s) <= Len(u) /\ \A i \in 1..Len(s) : s[i] = u[i]

C6_Order ==
    <<"warmup", "encode_image", "encode_text", "encode_image", "encode_text", "warmup_done">>

C6_WarmupState ==
    \A t \in Threads :
        (Has(trace[t], "warmup") /\ args[t].warmup_batch_size >= 1) =>
            LET steps == WarmupSteps(t)
                n == args[t].warmup_batch_size
                ran == SelectSeq(steps, LAMBDA e : e.ev \notin {"raise", "return"})
            IN  /\ Len(batch[t].image_tensor) = n
                /\ Len(batch[t].text_tokens) = n
                /\ IsPrefix(Evs(ran), C6_Order)
                /\ \A i \in 1..Len(steps) : IsEncode(steps[i]) => steps[i].b = n
                /\ \A i \in 1..Len(steps) : steps[i].ev = "raise" => steps[i].a = "encode"
                /\ pc[t] = "lc_return" => Evs(steps) = C6_Order

\* C6: for every batch size n >= 1, warmup builds an image batch and a text batch of
\* n items each and calls encode_image, encode_text, encode_image, encode_text, in
\* that order, each on a batch of n items; it ends after these four calls, it raises
\* only if an encode call raises, and no step of it changes the model handle or a
\* cache.
C6_WarmupPasses ==
    /\ []C6_WarmupState
    /\ [][(\E t \in Threads : pc[t] \in WarmupPcs)
             => UNCHANGED <<loadCache, modelCache, tokCache, model>>]_vars

\* a warmup with a batch of more than one item has made its four calls
C6_Witness ==
    /\ pc["t1"] = "lc_return"
    /\ args["t1"].warmup_batch_size > 1
    /\ Evs(WarmupSteps("t1")) = C6_Order

C7_Full ==
    <<"dispatch", "load", "store", "warmup", "encode_image", "encode_text",
      "encode_image", "encode_text", "warmup_done", "return">>

\* the steps of a call that finds the model in load_clip_without_warmup's cache
C7_FromModelCache ==
    <<"cache_hit", "warmup", "encode_image", "encode_text",
      "encode_image", "encode_text", "warmup_done", "return">>

\* the trace of t is that of a load_clip call that load_clip's cache did not answer
InBody(t) ==
    /\ Len(trace[t]) > 0
    /\ \/ trace[t][1].ev = "dispatch"
       \/ trace[t][1].ev = "cache_hit" /\ trace[t][1].a = "load_clip_without_warmup"

\* a call that ended before call j loaded and stored the model of key k
StoredBefore(j, k) ==
    \E i \in 1..(j - 1) :
        KeyOf(history[i].args) = k /\ history[i].loaded /\ history[i].origin # "loader"

\* a call that ended before call j returned for the arguments a
ReturnedBefore(j, a) == \E i \in 1..(j - 1) : Returns(i) /\ history[i].args = a

\* C7 as stated: every load_clip call that is not answered from load_clip's own cache
\* and returns has taken the steps dispatch, load, store, warmup, return, in order.
C7_EveryBodyCallLoads ==
    \A t \in Threads :
        (InBody(t) /\ outcome[t].kind = "return") => Evs(trace[t]) = C7_Full

\* C7 amended: a load_clip call that is not answered from load_clip's own cache takes
\* the steps dispatch, load, store, warmup, return in this order when the model cache
\* has no entry for its key; when the model cache has one (an earlier call stored
\* it), the call takes the model from there and dispatch, load and store do not
\* happen.  Either way the handle is returned only after the warmup has completed,
\* and a later call with identical arguments is answered from load_clip's cache
\* with the same handle, without a loader call or a warmup.
C7_StepsInOrder ==
    /\ \A t \in Threads :
          InBody(t) =>
              LET ran == SelectSeq(trace[t], LAMBDA e : e.ev # "raise")
                  k == KeyOf(args[t])
                  earlier == IF pc[t] = "idle" THEN Len(history) ELSE Len(history) + 1
              IN  /\ IF StoredBefore(earlier, k)
                     THEN IsPrefix(Evs(ran), C7_FromModelCache)
                     ELSE IsPrefix(Evs(ran), C7_Full)
                  /\ outcome[t].kind = "return" =>
                        Evs(trace[t]) \in {C7_Full, C7_FromModelCache}
                  /\ pc[t] \in WarmupPcs \cup {"lc_return"} =>
                        KeyOf(args[t]) \in DOMAIN modelCache
    /\ \A j \in Calls :
          ReturnedBefore(j, history[j].args) =>
              /\ Returns(j) /\ history[j].origin = "cache"
              /\ ~history[j].loaded /\ ~history[j].warmed
              /\ \A i \in 1..(j - 1) :
                    (Returns(i) /\ history[i].args = history[j].args)
                       => history[i].model = history[j].model

\* a call has loaded, stored, warmed up and returned; a call with other arguments and
\* the same key has then taken the model from the model cache, warmed up and
\* returned; and the first call, repeated, has been answered from load_clip's cache
C7_Witness ==
    /\ Len(history) = 3
    /\ \A i \in Calls : Returns(i)
    /\ history[1].loaded /\ history[1].warmed
    /\ ~history[2].loaded /\ history[2].warmed
    /\ history[3].args = history[1].args /\ history[3].origin = "cache"

\* C8: the key of the model cache is (model name, JIT flag, resolved device, cache
\* path).  In a single-threaded run, load_clip calls that agree on these four values
\* return the same handle even if their warmup batch sizes differ; once a call has
\* returned for a key, exactly one call has loaded the model of that key, and the
\* loader has been invoked for it once plus once per earlier failure of the loader;
\* and for each argument tuple that has returned, exactly one returning call has run
\* the warmup.
C8_KeyIgnoresBatchSize ==
    /\ \A i, j \in Calls :
          (Returns(i) /\ Returns(j) /\ KeyOf(history[i].args) = KeyOf(history[j].args))
             => history[i].model = history[j].model
    /\ \A i \in Calls :
          Returns(i) =>
              LET k == KeyOf(history[i].args)
                  a == history[i].args
                  loads == {j \in Calls : /\ KeyOf(history[j].args) = k
                                          /\ history[j].loaded
                                          /\ history[j].origin # "loader"}
                  failures == {j \in Calls : /\ KeyOf(history[j].args) = k
                                             /\ history[j].origin = "loader"}
                  warmed == {j \in Calls : /\ history[j].args = a
                                           /\ Returns(j) /\ history[j].warmed}
                  failed == {j \in Calls : /\ history[j].args = a
                                           /\ ~Returns(j) /\ history[j].warmed}
              IN  /\ Cardinality(loads) = 1
                  /\ Cardinality(warmed) = 1
                  /\ (\A t \in Threads : pc[t] = "idle") =>
                        /\ Count(loaderCalls, k) = 1 + Cardinality(failures)
                        /\ Count(warmupRuns, a) = 1 + Cardinality(failed)

\* two calls that differ in the warmup batch size only have returned the same
\* handle after one loader call and one warmup each
C8_Witness ==
    /\ Len(history) = 2
    /\ Returns(1) /\ Returns(2)
    /\ history[1].args.warmup_batch_size # history[2].args.warmup_batch_size
    /\ [history[1].args EXCEPT !.warmup_batch_size = 0]
          = [history[2].args EXCEPT !.warmup_batch_size = 0]
    /\ history[1].model = history[2].model
    /\ Count(loaderCalls, KeyOf(history[1].args)) = 1
    /\ Count(warmupRuns, history[1].args) = 1
    /\ Count(warmupRuns, history[2].args) = 1

\* the models of key k that thread t has loaded, in calls that ended or in its
\* current call
LoadedBy(t, k) ==
    Cardinality({j \in Calls : /\ history[j].thread = t
                               /\ KeyOf(history[j].args) = k
                               /\ history[j].loaded
                               /\ history[j].origin # "loader"})
    + (IF pc[t] # "idle" /\ Has(trace[t], "load") /\ KeyOf(args[t]) = k THEN 1 ELSE 0)

\* C9: nothing protects the caches against concurrent first requests.  A thread
\* loads the model of a key at most once, so a key is loaded twice only by two
\* threads that both found the model cache empty; the witness is that interleaving.
C9_DuplicateLoadOnlyAcrossThreads ==
    \A t \in Threads :
        \A k \in {KeyOf(a) : a \in workload.requests} : LoadedBy(t, k) <= 1

\* two threads have made the same first request, both have loaded the model, and
\* the two calls have returned two different handles
C9_Witness ==
    /\ Len(history) = 2
    /\ Returns(1) /\ Returns(2)
    /\ history[1].thread # history[2].thread
    /\ history[1].args = history[2].args
    /\ history[1].loaded /\ history[2].loaded
    /\ history[1].model # history[2].model
    /\ Count(loaderCalls, KeyOf(history[1].args)) = 2

\* C10: failures are not cached.  load_clip's cache holds exactly the arguments of the
\* calls that returned, and the model cache exactly the keys whose loader returned.
\* A call invokes the loader unless an earlier call loaded the model of its key (an
\* earlier failure of the loader does not count), and it runs the warmup unless the
\* loader failed or an earlier call with identical arguments returned (an earlier
\* failure of the warmup does not count); calls on the same key hold the same handle.
C10_FailuresNotCached ==
    /\ DOMAIN loadCache = {history[i].args : i \in {j \in Calls : Returns(j)}}
    /\ DOMAIN modelCache =
          {KeyOf(history[i].args) :
              i \in {j \in Calls : history[j].loaded /\ history[j].origin # "loader"}}
          \cup {KeyOf(args[t]) :
                  t \in {u \in Threads : pc[u] # "idle" /\ Has(trace[u], "store")}}
    /\ \A j \in Calls :
          /\ history[j].loaded <=>
                (history[j].origin # "cache" /\ ~StoredBefore(j, KeyOf(history[j].args)))
          /\ history[j].warmed <=>
                (history[j].origin # "loader" /\ ~ReturnedBefore(j, history[j].args))
          /\ \A i \in 1..(j - 1) :
                (/\ KeyOf(history[i].args) = KeyOf(history[j].args)
                 /\ history[i].model # NoModel.id
                 /\ history[j].model # NoModel.id)
                   => history[i].model = history[j].model

\* the loader has failed; the same request has loaded the model and failed in the
\* warmup; the same request has then warmed up the same handle without a load
C10_Witness ==
    /\ Len(history) = 3
    /\ history[2].args = history[1].args /\ history[3].args = history[1].args
    /\ history[1].kind = "raise" /\ history[1].origin = "loader"
    /\ history[2].kind = "raise" /\ history[2].loaded /\ history[2].warmed
    /\ Returns(3) /\ ~history[3].loaded /\ history[3].warmed
    /\ history[3].model = history[2].model
    /\ Count(loaderCalls, KeyOf(history[1].args)) = 2

====
